---- MODULE Spec2Model ----
(***************************************************************************)
(* Model of the file-processing pipeline of aws-cdk-project:               *)
(*   - lambda/processor.ts (src/unnamed/part_000): the handler, one        *)
(*     action per statement that can be observed from outside;             *)
(*   - lib/my_small_project-stack.ts (src/unnamed/part_002): the deployed  *)
(*     wiring: upload bucket -> notification queue, the metadata table     *)
(*     keyed by fileId, the function, and the route GET /files/{fileId}    *)
(*     integrated with that same function.                                 *)
(* Invocations are modelled one at a time; the table and the queue are the *)
(* only state that outlives an invocation.  A failed service call is one   *)
(* the service did not apply.                                              *)
(***************************************************************************)
EXTENDS Integers, Sequences, FiniteSets, TLC

\* ---- bounds ----
MaxInvocations == 2
MaxUploads == 1
MaxRecords == 2

\* ---- input domains ----
Undefined == "undefined"          \* the JavaScript value undefined
Keys == {"a", "b"}
Sizes == {12}
Times == {0, 61001}                \* readings of the wall clock, milliseconds
Errors == {"Error", "NonError"}   \* thrown value is an Error instance or not

LambdaRole == "LambdaProcessingTheFile"
S3Principal == "s3.amazonaws.com"

VARIABLES
    table,        \* MetadataTable: set of items
    queue,        \* NotificationQueue: sequence of messages
    bucket,       \* UploadBucket: set of objects
    inflight,     \* notifications S3 has emitted and not yet delivered
    pc,           \* position of the current invocation in the handler
    event,        \* its input event
    source,       \* who invoked it: "direct" or "api"
    fileId,       \* handler local (line 43)
    metadata,     \* handler local (line 48)
    error,        \* value caught at line 79
    response,     \* value the handler's promise resolved with
    calls,        \* service calls this invocation has completed, in order
    table0,       \* table when the invocation started
    queue0,       \* queue when the invocation started
    invocations,  \* number of invocations started
    uploads       \* number of objects uploaded

vars == <<table, queue, bucket, inflight, pc, event, source, fileId,
          metadata, error, response, calls, table0, queue0, invocations, uploads>>

infra == <<bucket, inflight, uploads>>
locals == <<fileId, metadata, error, response>>
started == <<event, source, table0, queue0, invocations>>

\* ---- JavaScript values and conversions ----

Digit(d) == CASE d = 0 -> "0" [] d = 1 -> "1" [] d = 2 -> "2" [] d = 3 -> "3"
              [] d = 4 -> "4" [] d = 5 -> "5" [] d = 6 -> "6" [] d = 7 -> "7"
              [] d = 8 -> "8" [] d = 9 -> "9"

RECURSIVE String(_)
\* String(n) for a non-negative integer: its decimal digits
String(n) == IF n < 10 THEN <<Digit(n)>> ELSE String(n \div 10) \o <<Digit(n % 10)>>

Pad(n, w) == LET s == String(n) IN [i \in 1..(w - Len(s)) |-> "0"] \o s

\* Date.prototype.toISOString for a time within the first hour of the epoch
toISOString(t) ==
    <<"1970-01-01T00:">> \o Pad((t \div 60000) % 60, 2) \o <<":">>
        \o Pad((t \div 1000) % 60, 2) \o <<".">> \o Pad(t % 1000, 3) \o <<"Z">>

Q == "\""
JStr(chars) == <<Q>> \o chars \o <<Q>>
JProp(name, value) == <<Q, name, Q, ":">> \o value

RECURSIVE JJoin(_)
JJoin(props) ==
    IF props = <<>> THEN <<>>
    ELSE IF Len(props) = 1 THEN props[1]
    ELSE props[1] \o <<",">> \o JJoin(Tail(props))

\* JSON.stringify of an object given its defined properties in order
JObj(props) == <<"{">> \o JJoin(props) \o <<"}">>

\* a property whose value is undefined is left out by JSON.stringify
JOpt(name, s) == IF s = Undefined THEN <<>> ELSE << JProp(name, JStr(<<s>>)) >>


\* ---- events ----

\* a record of an S3 notification (it carries s3.object) or of another
\* source, such as a queue message record (it carries no s3 property)
S3Record(k, n) == [hasS3 |-> TRUE, key |-> k, size |-> n]
OtherRecord == [hasS3 |-> FALSE, key |-> Undefined, size |-> 0]
RecordSet == {S3Record(k, n) : k \in Keys, n \in Sizes} \cup {OtherRecord}

RecordLists == UNION {[1..n -> RecordSet] : n \in 0..MaxRecords}

\* an event handed to the function: an S3-shaped event, or one without Records
S3Event(rs) == [hasRecords |-> TRUE, Records |-> rs, pathFileId |-> Undefined]
NoRecordsEvent == [hasRecords |-> FALSE, Records |-> <<>>, pathFileId |-> Undefined]
\* the proxy event API Gateway builds for GET /files/{fileId}
ProxyEvent(id) == [hasRecords |-> FALSE, Records |-> <<>>, pathFileId |-> id]

Events == {S3Event(rs) : rs \in RecordLists} \cup {NoRecordsEvent}

\* ---- responses ----

NoResponse == [statusCode |-> 0, body |-> <<>>]

InvalidEventResponse ==
    [statusCode |-> 400,
     body |-> JObj(<< JProp("error", JStr(<<"Invalid event">>)) >>)]

SuccessResponse(fid) ==
    [statusCode |-> 200,
     body |-> JObj(<< JProp("success", <<"true">>) >> \o JOpt("fileId", fid))]

ErrorResponseLeak(fid, err) ==
    [statusCode |-> 500,
     body |-> JObj(<< JProp("error", JStr(<<err>>)) >> \o JOpt("requestId", fid))]

\* err is logged only (lines 82-86); the response does not depend on it
ErrorResponse(fid, err) ==
    [statusCode |-> 500,
     body |-> JObj(<< JProp("error", JStr(<<"Internal error">>)) >>
                     \o JOpt("requestId", fid))]

\* ---- the handler's pure steps ----

HasLengthMissingOnly(ev) == ev.hasRecords

\* event.Records?.length is truthy
HasLength(ev) == ev.hasRecords /\ Len(ev.Records) # 0

LastRecord(ev) ==
    IF Len(ev.Records) = 0 THEN OtherRecord ELSE ev.Records[Len(ev.Records)]

\* event.Records[0]
FirstRecord(ev) == IF Len(ev.Records) = 0 THEN OtherRecord ELSE ev.Records[1]

NoMetadata ==
    [fileId |-> [S |-> Undefined], status |-> [S |-> ""],
     timestamp |-> [S |-> <<>>], size |-> [N |-> <<>>]]

Metadata(fid, t, n) ==
    [fileId |-> [S |-> fid],
     status |-> [S |-> "PROCESSED"],
     timestamp |-> [S |-> toISOString(t)],
     size |-> [N |-> String(n)]]

\* JSON.stringify(metadata)
Stringify(m) ==
    JObj(<< JProp("fileId", JObj(JOpt("S", m.fileId.S))),
            JProp("status", JObj(JOpt("S", m.status.S))),
            JProp("timestamp", JObj(<< JProp("S", JStr(m.timestamp.S)) >>)),
            JProp("size", JObj(<< JProp("N", JStr(m.size.N)) >>)) >>)

MessageBodyKeyOnly(m) == JStr(<<m.fileId.S>>)

MessageBody(m) == Stringify(m)

\* ---- the services ----

PutItemAppend(t, item) == t \cup {item}

\* PutItem on a table whose partition key is fileId: the item replaces the
\* one with the same key
PutItem(t, item) == {i \in t : i.fileId.S # item.fileId.S} \cup {item}

SendMessage(q, sender, body) == Append(q, [SenderId |-> sender, MessageBody |-> body])

\* the body of the notification S3 sends for a created object
NotificationBody(o) ==
    JObj(<< JProp("Records", <<"[">> \o
        JObj(<< JProp("s3", JObj(<< JProp("object",
            JObj(<< JProp("key", JStr(<<o.key>>)),
                    JProp("size", String(o.size)) >>)) >>)) >>) \o <<"]">>) >>)

PutCall(item, ok) == [op |-> "PutItem", ok |-> ok, item |-> item, body |-> <<>>]
SendCall(item, body, ok) == [op |-> "SendMessage", ok |-> ok, item |-> item, body |-> body]

AfterPutAlways(ok) == "send"

\* the send follows the put only when the put's promise resolved (lines 58-66)
AfterPut(ok) == IF ok THEN "send" ELSE "catch"

AfterSend(ok) == IF ok THEN "respond" ELSE "catch"

\* ---- initial state: the stack as deployed, nothing uploaded or invoked ----

Init ==
    /\ table = {}
    /\ queue = <<>>
    /\ bucket = {}
    /\ inflight = <<>>
    /\ pc = "idle"
    /\ event = NoRecordsEvent
    /\ source = "direct"
    /\ fileId = Undefined
    /\ metadata = NoMetadata
    /\ error = "Error"
    /\ response = NoResponse
    /\ calls = <<>>
    /\ table0 = {}
    /\ queue0 = <<>>
    /\ invocations = 0
    /\ uploads = 0

Finished == pc \in {"idle", "returned", "thrown"}

\* ---- the infrastructure ----

\* an object is created in UploadBucket; S3 emits the OBJECT_CREATED notification
Upload(k, n) ==
    /\ uploads < MaxUploads
    /\ uploads' = uploads + 1
    /\ bucket' = {o \in bucket : o.key # k} \cup {[key |-> k, size |-> n]}
    /\ inflight' = Append(inflight, [key |-> k, size |-> n])
    /\ UNCHANGED <<table, queue, pc, calls>>
    /\ UNCHANGED <<locals, started>>

\* the notification reaches NotificationQueue, its SqsDestination
DeliverNotification ==
    /\ inflight # <<>>
    /\ queue' = SendMessage(queue, S3Principal, NotificationBody(Head(inflight)))
    /\ inflight' = Tail(inflight)
    /\ UNCHANGED <<table, bucket, uploads, pc, calls>>
    /\ UNCHANGED <<locals, started>>

Start(ev, src) ==
    /\ invocations < MaxInvocations
    /\ invocations' = invocations + 1
    /\ event' = ev
    /\ source' = src
    /\ pc' = "validate"
    /\ fileId' = Undefined
    /\ metadata' = NoMetadata
    /\ error' = "Error"
    /\ response' = NoResponse
    /\ calls' = <<>>
    /\ table0' = table
    /\ queue0' = queue
    /\ UNCHANGED <<table, queue, infra>>

\* the function is invoked with an event by a caller of the Lambda API
Invoke(ev) ==
    /\ Finished
    /\ Start(ev, "direct")

\* GET /files/{fileId}: the LambdaIntegration invokes the same function
ApiGet(id) ==
    /\ Finished
    /\ Start(ProxyEvent(id), "api")

\* ---- the handler ----

\* lines 33-35
Validate ==
    /\ pc = "validate"
    /\ IF HasLength(event)
       THEN /\ pc' = "extract"
            /\ UNCHANGED response
       ELSE /\ pc' = "returned"
            /\ response' = InvalidEventResponse
    /\ UNCHANGED <<table, queue, infra, started, fileId, metadata, error, calls>>

\* lines 39-43, outside the try: reading .s3.object of a record without s3
\* throws a TypeError that nothing catches
Extract ==
    /\ pc = "extract"
    /\ IF FirstRecord(event).hasS3
       THEN /\ pc' = "prepare"
            /\ fileId' = FirstRecord(event).key
       ELSE /\ pc' = "thrown"
            /\ UNCHANGED fileId
    /\ UNCHANGED <<table, queue, infra, started, metadata, error, response, calls>>

\* lines 48-53; t is what new Date() reads
Prepare(t) ==
    /\ pc = "prepare"
    /\ metadata' = Metadata(fileId, t, FirstRecord(event).size)
    /\ pc' = "put"
    /\ UNCHANGED <<table, queue, infra, started, fileId, error, response, calls>>

\* lines 58-61, the promise resolves
PutOk ==
    /\ pc = "put"
    /\ table' = PutItem(table, metadata)
    /\ calls' = Append(calls, PutCall(metadata, TRUE))
    /\ pc' = AfterPut(TRUE)
    /\ UNCHANGED <<queue, infra, started, locals>>

\* lines 58-61, the promise rejects
PutFail(err) ==
    /\ pc = "put"
    /\ error' = err
    /\ calls' = Append(calls, PutCall(metadata, FALSE))
    /\ pc' = AfterPut(FALSE)
    /\ UNCHANGED <<table, queue, infra, started, fileId, metadata, response>>

\* lines 66-70, the promise resolves
SendOk ==
    /\ pc = "send"
    /\ queue' = SendMessage(queue, LambdaRole, MessageBody(metadata))
    /\ calls' = Append(calls, SendCall(metadata, MessageBody(metadata), TRUE))
    /\ pc' = AfterSend(TRUE)
    /\ UNCHANGED <<table, infra, started, locals>>

\* lines 66-70, the promise rejects
SendFail(err) ==
    /\ pc = "send"
    /\ error' = err
    /\ calls' = Append(calls, SendCall(metadata, MessageBody(metadata), FALSE))
    /\ pc' = AfterSend(FALSE)
    /\ UNCHANGED <<table, queue, infra, started, fileId, metadata, response>>

\* lines 74-77
Respond ==
    /\ pc = "respond"
    /\ response' = SuccessResponse(fileId)
    /\ pc' = "returned"
    /\ UNCHANGED <<table, queue, infra, started, fileId, metadata, error, calls>>

CatchRollback ==
    /\ pc = "catch"
    /\ response' = ErrorResponse(fileId, error)
    /\ pc' = "returned"
    /\ table' = table0
    /\ UNCHANGED <<queue, infra, started, fileId, metadata, error, calls>>

\* lines 79-94
Catch ==
    /\ pc = "catch"
    /\ response' = ErrorResponse(fileId, error)
    /\ pc' = "returned"
    /\ UNCHANGED <<table, queue, infra, started, fileId, metadata, error, calls>>

HandlerStep ==
    \/ Validate
    \/ Extract
    \/ \E t \in Times : Prepare(t)
    \/ PutOk
    \/ \E err \in Errors : PutFail(err)
    \/ SendOk
    \/ \E err \in Errors : SendFail(err)
    \/ Respond
    \/ Catch

Next ==
    \/ \E k \in Keys, n \in Sizes : Upload(k, n)
    \/ DeliverNotification
    \/ \E ev \in Events : Invoke(ev)
    \/ \E id \in Keys : ApiGet(id)
    \/ Validate
    \/ Extract
    \/ \E t \in Times : Prepare(t)
    \/ PutOk
    \/ \E err \in Errors : PutFail(err)
    \/ SendOk
    \/ \E err \in Errors : SendFail(err)
    \/ Respond
    \/ Catch

Spec == Init /\ [][Next]_vars

\* S3 delivers the notifications it emits, and a started invocation runs to
\* its end; nothing obliges anyone to call the function or the route
FairSpec ==
    /\ Spec
    /\ WF_vars(DeliverNotification)
    /\ WF_vars(HandlerStep)

\* ---- vocabulary of the properties ----

WellFormed == event.hasRecords /\ event.Records # <<>>
Malformed == ~WellFormed
PastValidation == pc \notin {"idle", "validate"}

FromLambda(q) == SelectSeq(q, LAMBDA m : m.SenderId = LambdaRole)

Succeeded(op) == \E i \in DOMAIN calls : calls[i].op = op /\ calls[i].ok
Failed(op) == \E i \in DOMAIN calls : calls[i].op = op /\ ~calls[i].ok
CallsOf(op) == {i \in DOMAIN calls : calls[i].op = op}

\* what the item written for an S3 record must look like
IsItemFor(item, r) ==
    /\ item.fileId.S = r.key
    /\ item.status.S = "PROCESSED"
    /\ item.size.N = String(r.size)
    /\ item.timestamp.S \in {toISOString(t) : t \in Times}

Body200(k) ==
    <<"{", Q, "success", Q, ":", "true", ",", Q, "fileId", Q, ":", Q, k, Q, "}">>
Body400 == <<"{", Q, "error", Q, ":", Q, "Invalid event", Q, "}">>
Body500(k) ==
    <<"{", Q, "error", Q, ":", Q, "Internal error", Q, ",",
      Q, "requestId", Q, ":", Q, k, Q, "}">>

\* ---- C1 ----

\* C1 as stated, on the invocations that return: for a well-formed event the
\* handler has written the record of Records[0], sent the message whose body
\* is that metadata, and the response has statusCode 200 naming the fileId.
C1_WellFormedAlwaysProcessed ==
    (pc = "returned" /\ WellFormed) =>
        /\ response.statusCode = 200
        /\ response.body = Body200(event.Records[1].key)
        /\ Succeeded("PutItem")
        /\ Succeeded("SendMessage")

\* C1 amended: for a well-formed event, once the table write and the queue
\* send have both succeeded, exactly one record has been written, keyed by the
\* object key of Records[0], exactly one message has been sent, its body is
\* that same metadata, and the handler returns statusCode 200 naming that
\* fileId.
C1_ProcessedWhenCallsSucceed ==
    (WellFormed /\ Succeeded("PutItem") /\ Succeeded("SendMessage")) =>
        /\ pc \in {"respond", "returned"}
        /\ Cardinality(CallsOf("PutItem")) = 1
        /\ Cardinality(CallsOf("SendMessage")) = 1
        /\ \E i \in CallsOf("PutItem"), j \in CallsOf("SendMessage") :
            LET item == calls[i].item IN
            /\ IsItemFor(item, event.Records[1])
            /\ item \in table
            /\ calls[j].body = Stringify(item)
            /\ FromLambda(queue) =
                   FromLambda(queue0) \o
                       <<[SenderId |-> LambdaRole, MessageBody |-> Stringify(item)]>>
        /\ pc = "returned" =>
            /\ response.statusCode = 200
            /\ response.body = Body200(event.Records[1].key)

C1_Witness ==
    /\ pc = "returned"
    /\ WellFormed
    /\ response.statusCode = 200
    /\ Succeeded("PutItem")
    /\ Succeeded("SendMessage")

\* ---- C2 ----

\* C2: for a malformed event (Records missing or empty) the handler returns
\* statusCode 400 and writes nothing to the table and sends nothing to the
\* queue.
C2_MalformedRejected ==
    (Malformed /\ PastValidation) =>
        /\ pc = "returned"
        /\ response.statusCode = 400
        /\ response.body = Body400
        /\ calls = <<>>
        /\ table = table0
        /\ FromLambda(queue) = FromLambda(queue0)

C2_Witness ==
    /\ pc = "returned"
    /\ event.hasRecords
    /\ event.Records = <<>>
    /\ response.statusCode = 400
    /\ table # {}

\* ---- C3 ----

Created(k) == \E o \in bucket : o.key = k
Processed(k) ==
    /\ \E i \in table : i.fileId.S = k
    /\ \E n \in DOMAIN queue :
        /\ queue[n].SenderId = LambdaRole
        /\ \E i \in table : i.fileId.S = k /\ queue[n].MessageBody = Stringify(i)

\* the function is running on an event whose first record names object k
InvokedFor(k) ==
    /\ ~Finished
    /\ WellFormed
    /\ event.Records[1].hasS3
    /\ event.Records[1].key = k

\* C3: in the deployed stack, whenever an object is created in the upload
\* bucket, the function is then invoked for that object, and a metadata
\* record for it is eventually written to the table and a result message
\* forwarded to the queue.  Behaviours in which a caller of the Lambda API or
\* of the route has invoked the function are let off, so that a violation is
\* a behaviour in which the upload is left to the stack's own wiring.
C3_UploadLeadsToRecord ==
    \A k \in Keys :
        Created(k) ~> \/ InvokedFor(k) /\ <>Processed(k)
                      \/ invocations > 0

\* ---- C4 ----

\* C4: a GET /files/{fileId} request for a fileId whose record has been
\* written returns that record's metadata, and changes neither the table nor
\* the queue.
C4_GetReturnsRecord ==
    (pc = "returned" /\ source = "api") =>
        \A i \in table0 :
            i.fileId.S = event.pathFileId =>
                /\ response.statusCode = 200
                /\ response.body = Stringify(i)
                /\ table = table0
                /\ FromLambda(queue) = FromLambda(queue0)

\* ---- C5 ----

\* C5: for a well-formed event, if the table write or the queue send fails,
\* the handler returns statusCode 500 with error "Internal error"; the
\* response is the same whichever call failed and whatever was thrown, and
\* the handler does not rethrow.
C5_FailureGives500 ==
    (WellFormed /\ (Failed("PutItem") \/ Failed("SendMessage"))) =>
        /\ pc \in {"catch", "returned"}
        /\ pc = "returned" =>
            /\ response.statusCode = 500
            /\ response.body = Body500(event.Records[1].key)

C5_Witness ==
    /\ pc = "returned"
    /\ WellFormed
    /\ Failed("SendMessage")
    /\ error = "NonError"
    /\ response.statusCode = 500

\* ---- C6 ----

\* C6: within one invocation the queue send is attempted only after the
\* table write has succeeded, and a 200 response is returned only after both
\* the write and the send have succeeded.
C6_WriteThenSendThenRespond ==
    /\ \A i \in DOMAIN calls :
        calls[i].op = "SendMessage" =>
            /\ i = 2
            /\ calls[1].op = "PutItem"
            /\ calls[1].ok
    /\ pc = "send" => (Len(calls) = 1 /\ calls[1].op = "PutItem" /\ calls[1].ok)
    /\ (pc = "respond" \/ response.statusCode = 200) =>
        /\ Len(calls) = 2
        /\ calls[1].op = "PutItem" /\ calls[1].ok
        /\ calls[2].op = "SendMessage" /\ calls[2].ok

C6_Witness ==
    /\ pc = "send"
    /\ Len(calls) = 1
    /\ calls[1].ok
    /\ calls[1].item \in table

\* ---- C7 ----

\* C7: for every input event the handler completes by returning a response
\* whose statusCode is 200, 400 or 500, and never terminates by throwing.
C7_AlwaysReturns ==
    /\ pc # "thrown"
    /\ pc = "returned" => response.statusCode \in {200, 400, 500}

\* ---- C8 ----

\* C8: every record in the table has its primary key fileId present and
\* status PROCESSED, the table holds at most one record per fileId, and a
\* write for a key already present replaces that record.
C8_TableKeyed ==
    /\ \A i \in table :
        /\ i.fileId.S \in Keys
        /\ i.status.S = "PROCESSED"
    /\ \A i, j \in table : i.fileId.S = j.fileId.S => i = j
    /\ Succeeded("PutItem") =>
        LET item == calls[1].item IN
        /\ table = {i \in table0 : i.fileId.S # item.fileId.S} \cup {item}
        /\ (\E i \in table0 : i.fileId.S = item.fileId.S) =>
               Cardinality(table) = Cardinality(table0)

C8_Witness ==
    /\ Succeeded("PutItem")
    /\ \E i \in table0 : i.fileId.S = calls[1].item.fileId.S /\ i # calls[1].item
    /\ Cardinality(table) = 1

\* ---- C9 ----

\* C9: when the table write succeeds and the queue send then fails, the
\* handler returns statusCode 500 while the record it wrote stays in the table
\* and the invocation has put no message in the queue.
C9_NoRollback ==
    (pc = "returned" /\ Succeeded("PutItem") /\ Failed("SendMessage")) =>
        /\ response.statusCode = 500
        /\ calls[1].item \in table
        /\ FromLambda(queue) = FromLambda(queue0)

\* a 500 response with the table changed
C9_Witness ==
    /\ pc = "returned"
    /\ response.statusCode = 500
    /\ Succeeded("PutItem")
    /\ Failed("SendMessage")
    /\ table # table0

\* ---- C10 ----

\* C10: for an event with two or more records, one invocation performs at
\* most one table write and at most one queue send, both for Records[0]; the
\* other records cause no write and no message, and the response is 200 when
\* the write and the send for Records[0] succeed.
C10_FirstRecordOnly ==
    (event.hasRecords /\ Len(event.Records) >= 2) =>
        /\ Cardinality(CallsOf("PutItem")) <= 1
        /\ Cardinality(CallsOf("SendMessage")) <= 1
        /\ \A i \in DOMAIN calls : IsItemFor(calls[i].item, event.Records[1])
        /\ \A i \in (table \ table0) \cup (table0 \ table) :
            i.fileId.S = event.Records[1].key
        /\ Cardinality(table \ table0) <= 1
        /\ Len(FromLambda(queue)) <= Len(FromLambda(queue0)) + 1
        /\ (pc = "returned" /\ Succeeded("PutItem") /\ Succeeded("SendMessage")) =>
            response.statusCode = 200

C10_Witness ==
    /\ event.hasRecords
    /\ Len(event.Records) >= 2
    /\ event.Records[2].hasS3
    /\ event.Records[2].key # event.Records[1].key
    /\ pc = "returned"
    /\ response.statusCode = 200
    /\ table # table0

====
